---- MODULE Spec2Model ----
(***************************************************************************)
(* The CSV event importer narrated in the Four Green Fields Farm posts:     *)
(* POST /api/events/import parses an uploaded CSV, maps every row into the  *)
(* Event entity shape and upserts it by the natural key (slug, startsAt).   *)
(* The store is the "events" table behind a TypeORM repository.             *)
(***************************************************************************)
EXTENDS Integers, Sequences, FiniteSets, TLC

\* ------------------------------------------------------------------ bounds

\* Rows admitted over the whole run (every processed row advances the clock).
MaxClock == 3
\* Rows of one uploaded file.
MaxBatch == 3
\* Injected store failures over the whole run.
MaxFaults == 1
\* Store operations that may time out in one run.
MaxTimeouts == 2

\* ------------------------------------------------------------ CSV field text

\* A datetime cell is text: a sequence of one-character strings.
T_Oct9_20 == <<"2","0","0","9","-","1","0","-","0","9"," ","2","0",":","0","0",":","0","0">>
\* The same instant written without zero padding of the day.
T_Oct9_20u == <<"2","0","0","9","-","1","0","-","9"," ","2","0",":","0","0",":","0","0">>
T_Oct9_23 == <<"2","0","0","9","-","1","0","-","0","9"," ","2","3",":","0","0",":","0","0">>
T_Oct16_20 == <<"2","0","0","9","-","1","0","-","1","6"," ","2","0",":","0","0",":","0","0">>
\* Not a datetime at all.
T_Soon == <<"s","o","o","n">>

DigitChars == {"0","1","2","3","4","5","6","7","8","9"}

DigitVal(c) ==
    CASE c = "0" -> 0 [] c = "1" -> 1 [] c = "2" -> 2 [] c = "3" -> 3
      [] c = "4" -> 4 [] c = "5" -> 5 [] c = "6" -> 6 [] c = "7" -> 7
      [] c = "8" -> 8 [] c = "9" -> 9

\* date-fns yields Invalid Date (it does not throw) for text it cannot parse.
InvalidDate == <<>>

IsValid(d) == d # InvalidDate

\* Number of leading digits of s from index i, at most n (a numeric token of
\* width n matches /^\d{1,n}/).
RECURSIVE DigitRun(_, _, _)
DigitRun(s, i, n) ==
    IF n = 0 \/ i > Len(s) \/ s[i] \notin DigitChars THEN 0
    ELSE 1 + DigitRun(s, i + 1, n - 1)

RECURSIVE DigitsValue(_, _, _)
DigitsValue(s, i, k) ==
    IF k = 0 THEN 0
    ELSE DigitsValue(s, i, k - 1) * 10 + DigitVal(s[i + k - 1])

\* The format string "yyyy-MM-dd HH:mm:ss" as tokens: a numeric field of the
\* given width (yyyy, MM, dd, HH, mm, ss) or a literal character.
Num(w) == [width |-> w, lit |-> ""]
Lit(c) == [width |-> 0, lit |-> c]

DateFormat ==
    <<Num(4), Lit("-"), Num(2), Lit("-"), Num(2), Lit(" "),
      Num(2), Lit(":"), Num(2), Lit(":"), Num(2)>>

IsLiteral(tok) == tok.width = 0

\* Walks the format over the text from index i; acc collects the numeric
\* fields. Returns <<>> when the text does not match the format.
RECURSIVE ParseTokens(_, _, _, _)
ParseTokens(s, i, t, acc) ==
    IF t > Len(DateFormat)
    THEN IF \A j \in i..Len(s) : s[j] = " " THEN <<acc>> ELSE <<>>
    ELSE IF IsLiteral(DateFormat[t])
         THEN IF i <= Len(s) /\ s[i] = DateFormat[t].lit
              THEN ParseTokens(s, i + 1, t + 1, acc)
              ELSE <<>>
         ELSE LET k == DigitRun(s, i, DateFormat[t].width)
              IN IF k = 0 THEN <<>>
                 ELSE ParseTokens(s, i + k, t + 1,
                                  Append(acc, DigitsValue(s, i, k)))

IsLeapYear(y) == (y % 4 = 0 /\ y % 100 # 0) \/ y % 400 = 0

DaysInMonth(y, m) ==
    IF m = 2 THEN (IF IsLeapYear(y) THEN 29 ELSE 28)
    ELSE IF m \in {4, 6, 9, 11} THEN 30 ELSE 31

\* Variant: text that does not match the format yields the reference date
\* instead of Invalid Date.
ParseAnything(text) ==
    LET got == ParseTokens(text, 1, 1, <<>>)
    IN IF got = <<>> THEN <<1970, 1, 1, 0, 0, 0>> ELSE got[1]

\* parse(text, "yyyy-MM-dd HH:mm:ss", new Date()): the instant named by the
\* text in the server's zone, as <<year, month, day, hour, minute, second>>,
\* or InvalidDate.
parse(text) ==
    LET got == ParseTokens(text, 1, 1, <<>>)
    IN IF got = <<>> THEN InvalidDate
       ELSE LET f == got[1]
            IN IF /\ f[1] >= 1
                  /\ f[2] \in 1..12
                  /\ f[3] \in 1..DaysInMonth(f[1], f[2])
                  /\ f[4] \in 0..23
                  /\ f[5] \in 0..59
                  /\ f[6] \in 0..59
               THEN f
               ELSE InvalidDate

\* ------------------------------------------------------------------ CSV rows

\* One parsed CSV line as csv-parser hands it over: column name -> cell text.
RawRow(n, sl, st, en, de, fe, he, ad, ac, hb) ==
    [name |-> n, slug |-> sl, starts_at |-> st, ends_at |-> en,
     description |-> de, is_featured |-> fe, is_has_ends_at |-> he,
     is_all_day |-> ad, is_active |-> ac, haunted_by |-> hb]

\* The row of the walk-through.
R_Pumpkin ==
    RawRow("Pumpkin Festival", "pumpkin-festival", T_Oct9_20, T_Oct9_23,
           "Annual fall celebration", "1", "1", "0", "1", "")
\* The same event (same slug, same instant) with other details.
R_PumpkinEdit ==
    RawRow("Pumpkin Fest", "pumpkin-festival", T_Oct9_20u, T_Oct9_23,
           "", "0", "1", "0", "0", "Headless Horseman")
\* Another instance of the recurring event: same slug, a week later.
R_PumpkinNext ==
    RawRow("Pumpkin Festival", "pumpkin-festival", T_Oct16_20, T_Oct9_23,
           "Annual fall celebration", "1", "1", "0", "1", "")
\* Another event at the same instant.
R_Maze ==
    RawRow("Corn Maze", "corn-maze", T_Oct9_20, T_Oct9_23,
           "Haunted corn maze", "0", "", "1", "1", "Scarecrow")
\* A row whose starts_at is not a datetime.
R_Bad ==
    RawRow("Hayride", "pumpkin-festival", T_Soon, T_Oct9_23,
           "", "0", "0", "0", "0", "")

Rows == {R_Pumpkin, R_PumpkinEdit, R_PumpkinNext, R_Maze, R_Bad}

\* The rows the concurrent imports draw from.
ConcRows == {R_Pumpkin, R_PumpkinEdit, R_Maze}

RECURSIVE SeqsUpTo(_, _)
SeqsUpTo(S, n) ==
    IF n = 0 THEN {<<>>}
    ELSE LET shorter == SeqsUpTo(S, n - 1)
         IN shorter \cup {Append(q, x) : q \in shorter, x \in S}

\* The uploaded files: at least one data line, at most MaxBatch.
Files == SeqsUpTo(Rows, MaxBatch) \ {<<>>}

\* Bytes of the uploaded buffer beyond ASCII, as a Latin-1 export holds them:
\* the no-break space, in UTF-8 a continuation byte, and the e acute, in UTF-8
\* the lead byte of a sequence of three.
ContinuationBytes == {"0xA0"}
LeadBytes == {"0xE9"}
\* U+FFFD, which decoding puts in the place of an invalid sequence.
Replacement == "<U+FFFD>"
\* The character a complete sequence decodes to: E9 A0 A0 is U+9820.
Decoded(lead, second, third) == "<U+9820>"

\* UTF-8 decoding from byte i on. A lead byte with its two continuation
\* bytes is one character; a lead byte cut short becomes one U+FFFD together
\* with the continuation bytes it did get, and decoding resumes at the byte
\* that broke the sequence; a stray continuation byte becomes U+FFFD.
RECURSIVE Utf8(_, _)
Utf8(bytes, i) ==
    LET IsContinuation(k) ==
            k <= Len(bytes) /\ bytes[k] \in ContinuationBytes
    IN IF i > Len(bytes) THEN <<>>
       ELSE IF bytes[i] \in LeadBytes
       THEN IF IsContinuation(i + 1) /\ IsContinuation(i + 2)
            THEN <<Decoded(bytes[i], bytes[i + 1], bytes[i + 2])>>
                     \o Utf8(bytes, i + 3)
            ELSE IF IsContinuation(i + 1)
            THEN <<Replacement>> \o Utf8(bytes, i + 2)
            ELSE <<Replacement>> \o Utf8(bytes, i + 1)
       ELSE IF bytes[i] \in ContinuationBytes
       THEN <<Replacement>> \o Utf8(bytes, i + 1)
       ELSE <<bytes[i]>> \o Utf8(bytes, i + 1)

\* The text csv-parser makes of a cell's bytes (Buffer toString, UTF-8): no
\* byte is refused.
toString(bytes) == Utf8(bytes, 1)

\* The datetime of the walk-through as a Latin-1 export writes it, with a
\* no-break space between the date and the time.
B_Oct9_20 ==
    <<"2","0","0","9","-","1","0","-","0","9","0xA0","2","0",":","0","0",":","0","0">>

\* The same with an e acute before the no-break space: a sequence cut short.
B_Oct9_20e ==
    <<"2","0","0","9","-","1","0","-","0","9","0xE9","0xA0","2","0",":","0","0",":","0","0">>
\* A later hour after two no-break spaces: the three bytes are valid UTF-8.
B_Oct9_23 ==
    <<"2","0","0","9","-","1","0","-","0","9","0xE9","0xA0","0xA0","2","3",":","0","0",":","0","0">>

\* A line of the buffer: column name -> the bytes of the cell. Only the
\* datetime cells are spelled out byte by byte.
L_MazeLatin1 ==
    RawRow("Corn Maze", "corn-maze", B_Oct9_20, T_Oct9_23,
           "Haunted corn maze", "0", "", "1", "1", "Scarecrow")

\* The same export with the other two datetime cells.
L_MazeCutShort ==
    RawRow("Corn Maze", "corn-maze", B_Oct9_20e, B_Oct9_23,
           "Haunted corn maze", "0", "", "1", "1", "Scarecrow")

BufferLines ==
    {R_Pumpkin, R_PumpkinEdit, R_Maze, L_MazeLatin1, L_MazeCutShort}

\* The uploaded buffers: at least one data line, at most MaxBatch.
Buffers == SeqsUpTo(BufferLines, MaxBatch) \ {<<>>}

\* The row csv-parser hands over for a line of the buffer.
DecodeLine(line) ==
    [line EXCEPT !.starts_at = toString(@), !.ends_at = toString(@)]

\* Readable.from(file.buffer).pipe(csv()): the rows of the buffer.
Decode(buffer) == [i \in 1..Len(buffer) |-> DecodeLine(buffer[i])]
ConcFiles == SeqsUpTo(ConcRows, MaxBatch) \ {<<>>}

\* row.x where the line has no cell for column x (the header lacks it, or the
\* line is short): undefined. No cell has this text.
Undefined == "<undefined>"
\* The same for a timestamp column: a text parse makes no date of.
T_Undefined == <<Undefined>>
\* An empty timestamp cell.
T_Empty == <<>>

\* Cells a flag column is tried with.
FlagCells == {"1", "0", "", "true", Undefined}
\* Cells an optional text column is tried with.
TextCells == {"", Undefined, "Annual fall celebration", " ", " Witch "}

\* Single rows to try the mapping on: the walk-through row with every
\* combination of flag cells, with every pair of optional texts, and with
\* name, slug and the timestamps present or not.
FlagRows ==
    {RawRow("Pumpkin Festival", "pumpkin-festival", T_Oct9_20, T_Oct9_23,
            "Annual fall celebration", fe, he, ad, ac, "") :
        fe \in FlagCells, he \in FlagCells, ad \in FlagCells,
        ac \in FlagCells}
TextRows ==
    {RawRow("Pumpkin Festival", "pumpkin-festival", T_Oct9_20, T_Oct9_23,
            de, "1", "1", "0", "1", hb) :
        de \in TextCells, hb \in TextCells}
RequiredRows ==
    {RawRow(n, sl, st, en, "Annual fall celebration", "1", "1", "0", "1", "") :
        n \in {"Pumpkin Festival", ""}, sl \in {"pumpkin-festival", ""},
        st \in {T_Oct9_20, T_Empty, T_Undefined},
        en \in {T_Oct9_23, T_Empty}}
NormRows == FlagRows \cup TextRows \cup RequiredRows

\* A row as read from a file whose header has no starts_at.
WithoutStartsAt(row) == [row EXCEPT !.starts_at = T_Undefined]

\* The files the mapping is tried with: every single row, and the two-line
\* files without a starts_at column.
NormFiles ==
    {<<row>> : row \in NormRows}
    \cup {<<WithoutStartsAt(r1), WithoutStartsAt(r2)>> :
            r1 \in {R_Pumpkin, R_Maze}, r2 \in {R_Pumpkin, R_Maze}}

\* The rows the transactional imports draw from.
AtomicRows == ConcRows \cup {R_Bad}
AtomicFiles == SeqsUpTo(AtomicRows, MaxBatch) \ {<<>>}

\* ------------------------------------------------------------- entity mapping

Null == <<>>

\* Variant: value ?? null, which keeps the empty text.
OrNullish(v) == IF v = Undefined THEN Null ELSE <<v>>

\* value || null on a cell: the empty text and undefined are falsy.
OrNull(v) == IF v \in {"", Undefined} THEN Null ELSE <<v>>

\* Variant: the flags are taken by truthiness, Boolean(cell).
EventDataTruthy(row) ==
    [name |-> row.name,
     slug |-> row.slug,
     startsAt |-> parse(row.starts_at),
     endsAt |-> parse(row.ends_at),
     description |-> OrNull(row.description),
     isFeatured |-> row.is_featured \notin {"", Undefined},
     isHasEndsAt |-> row.is_has_ends_at \notin {"", Undefined},
     isAllDay |-> row.is_all_day \notin {"", Undefined},
     isActive |-> row.is_active \notin {"", Undefined},
     hauntedBy |-> OrNull(row.haunted_by)]

\* Step 2 - the row in the shape of the Event entity.
EventData(row) ==
    [name |-> row.name,
     slug |-> row.slug,
     startsAt |-> parse(row.starts_at),
     endsAt |-> parse(row.ends_at),
     description |-> OrNull(row.description),
     isFeatured |-> row.is_featured = "1",
     isHasEndsAt |-> row.is_has_ends_at = "1",
     isAllDay |-> row.is_all_day = "1",
     isActive |-> row.is_active = "1",
     hauntedBy |-> OrNull(row.haunted_by)]

\* The columns the import sets.
Settable(r) ==
    [name |-> r.name, slug |-> r.slug, startsAt |-> r.startsAt,
     endsAt |-> r.endsAt, description |-> r.description,
     isFeatured |-> r.isFeatured, isHasEndsAt |-> r.isHasEndsAt,
     isAllDay |-> r.isAllDay, isActive |-> r.isActive,
     hauntedBy |-> r.hauntedBy]

\* A row of the events table.
Entity(id, d, created, updated) ==
    [id |-> id, name |-> d.name, slug |-> d.slug, startsAt |-> d.startsAt,
     endsAt |-> d.endsAt, description |-> d.description,
     isFeatured |-> d.isFeatured, isHasEndsAt |-> d.isHasEndsAt,
     isAllDay |-> d.isAllDay, isActive |-> d.isActive,
     hauntedBy |-> d.hauntedBy, createdAt |-> created, updatedAt |-> updated]

\* ------------------------------------------------------------ the repository

\* Variant: only active events are looked at.
MatchingActive(st, slug, startsAt) ==
    {r \in st : r.slug = slug /\ r.startsAt = startsAt /\ r.isActive}

\* Variant: the slug alone decides.
MatchingBySlug(st, slug, startsAt) == {r \in st : r.slug = slug}

\* The rows of the table with this slug and exactly this instant.
Matching(st, slug, startsAt) ==
    {r \in st : r.slug = slug /\ r.startsAt = startsAt}

\* Variant: the lookup never finds anything.
FindOneByNever(st, slug, startsAt) == {{}}

\* repo.findOneBy({slug, startsAt}): null or one matching row. The query has
\* no ORDER BY, so with several matches any of them may come back. A result
\* is {} for null, {r} for the entity r.
FindOneBy(st, slug, startsAt) ==
    IF Matching(st, slug, startsAt) = {} THEN {{}}
    ELSE {{r} : r \in Matching(st, slug, startsAt)}

\* Variant: a sparse patch, null properties are skipped.
MergeSparse(e, d) ==
    Entity(e.id,
           [d EXCEPT
              !.description = IF @ = Null THEN e.description ELSE @,
              !.hauntedBy = IF @ = Null THEN e.hauntedBy ELSE @],
           e.createdAt, e.updatedAt)

\* repo.merge(existing, eventData): every property of eventData that is not
\* undefined is written over the entity's, null included.
Merge(e, d) == Entity(e.id, d, e.createdAt, e.updatedAt)

\* Variant: the row is deleted and inserted again under a new id.
SaveExistingReinsert(st, e, now) ==
    {r \in st : r.id # e.id} \cup {Entity(e.id + 100, e, now, now)}

\* Variant: the UPDATE is issued, and updatedAt set, whether or not a column
\* differs.
SaveExistingTouch(st, e, now) ==
    {IF r.id = e.id THEN Entity(r.id, e, r.createdAt, now) ELSE r : r \in st}

\* repo.save of an entity that has an id: the row with that id is updated
\* with the columns that differ and its updatedAt is set; with no column
\* differing no UPDATE is issued.
SaveExisting(st, e, now) ==
    LET db == CHOOSE r \in st : r.id = e.id
    IN IF Settable(db) = Settable(e) THEN st
       ELSE (st \ {db}) \cup {Entity(db.id, e, db.createdAt, now)}

\* Variant: the insert is conditional on the natural key being free.
SaveNewIfAbsent(st, d, id, now) ==
    IF \E r \in st : r.slug = d.slug /\ r.startsAt = d.startsAt THEN st
    ELSE st \cup {Entity(id, d, now, now)}

\* repo.save(repo.create(eventData)): a new row with a generated id, its
\* createdAt and updatedAt set by the table.
SaveNew(st, d, id, now) == st \cup {Entity(id, d, now, now)}

\* results.push(`Updated ${row.name} @ ${row.starts_at}`) and its Created twin;
\* the failed line of a row that threw carries the reason.
Line(kind, row, reason) ==
    [kind |-> kind, name |-> row.name, at |-> row.starts_at, reason |-> reason]

\* Variant: unshift instead of push.
PushFront(res, line) == <<line>> \o res

Push(res, line) == Append(res, line)

\* ------------------------------------------------------------------ worker

\* Fetch events one run of the worker handles.
MaxEvents == 3

\* request.url from the path on (the origin left out), as characters.
\* "/": the front page.
U_Root == <<"/">>
\* "/a": a page.
U_A == <<"/", "a">>
\* "/a.html": a prerendered page.
U_AHtml == <<"/", "a", ".", "h", "t", "m", "l">>
\* "/a.HTML": the extension in capitals.
U_AHtmlUpper == <<"/", "a", ".", "H", "T", "M", "L">>
\* "/a.html/": a trailing slash after the extension.
U_AHtmlSlash == <<"/", "a", ".", "h", "t", "m", "l", "/">>
\* "/a.htm": another extension.
U_AHtm == <<"/", "a", ".", "h", "t", "m">>
\* "/.html": nothing but the extension.
U_DotHtml == <<"/", ".", "h", "t", "m", "l">>
\* "/a.html?v=2": a prerendered page with a query.
U_AHtmlQuery == <<"/", "a", ".", "h", "t", "m", "l", "?", "v", "=", "2">>
\* "/a?n=b.html": a page whose query ends in .html.
U_AQueryHtml == <<"/", "a", "?", "n", "=", "b", ".", "h", "t", "m", "l">>
\* "/b/a.html": a prerendered page in a directory.
U_BAHtml == <<"/", "b", "/", "a", ".", "h", "t", "m", "l">>

Urls ==
    {U_Root, U_A, U_AHtml, U_AHtmlUpper, U_AHtmlSlash,
     U_AHtm, U_DotHtml, U_AHtmlQuery, U_AQueryHtml, U_BAHtml}

\* The index of the first "?" or "#" of url from i on, Len(url) + 1 if none.
RECURSIVE PathEnd(_, _)
PathEnd(url, i) ==
    IF i > Len(url) \/ url[i] \in {"?", "#"} THEN i ELSE PathEnd(url, i + 1)

\* new URL(request.url).pathname: the url up to its query or fragment.
Pathname(url) == SubSeq(url, 1, PathEnd(url, 1) - 1)

DotHtml == <<".", "h", "t", "m", "l">>

\* Variant: the text only has to contain the suffix.
Includes(text, suffix) ==
    \E i \in 1..Len(text) :
        /\ i + Len(suffix) - 1 <= Len(text)
        /\ SubSeq(text, i, i + Len(suffix) - 1) = suffix

\* text.endsWith(suffix)
EndsWith(text, suffix) ==
    /\ Len(text) >= Len(suffix)
    /\ SubSeq(text, Len(text) - Len(suffix) + 1, Len(text)) = suffix

\* What an awaited upstream call settles to: a response with its status, or
\* a rejection.
Response(from, code) == [kind |-> "response", from |-> from, code |-> code]
Thrown(from) == [kind |-> "thrown", from |-> from, code |-> 0]

\* fetch(request): the static file server.
StaticOutcomes ==
    {Response("static", code) : code \in {200, 304, 404, 500}}
    \cup {Thrown("static")}
\* nitroWorker.fetch(request): the SSR application.
NitroOutcomes ==
    {Response("nitro", code) : code \in {200, 404}} \cup {Thrown("nitro")}

\* getAssetFromKV(event): the asset, or a rejection (not found, method not
\* allowed, internal error).
AssetOutcomes ==
    {Response("kv", code) : code \in {200, 304}} \cup {Thrown("kv")}
\* new Response("Not found", { status: 404 })
NotFound == Response("worker", 404)
\* The listener itself threw before it called respondWith.
ListenerThrew == Thrown("listener")

\* An upstream call that has settled.
Call(to, got) == [to |-> to, got |-> got]

\* ------------------------------------------------------------ contact form

\* Requests one run of the contact handler serves.
MaxPosts == 2

\* The bodies posted: the Turnstile token comes as `token`, as
\* `cf-turnstile-response`, as both or not at all.
Bodies ==
    [name : {"Ann"},
     email : {"ann@example.com", "bob@example.com"},
     token : {Undefined, "", "tok-1"},
     cfTurnstileResponse : {Undefined, "tok-2"}]

\* What the awaited readBody(event) settles to: <<the body>>, or <<>> for a
\* rejection (a body that cannot be read or parsed).
ReadBodyOutcomes == {<<b>> : b \in Bodies} \cup {<<>>}

\* What contactValidation.validate reports: the messages of error.details,
\* none when `error` is undefined.
ValidationOutcomes ==
    {<<>>, <<"Please enter your name.">>,
     <<"Please enter a valid email.", "Please enter a message.">>}

\* a || b on texts: undefined and the empty text are falsy.
OrElse(a, b) == IF a \in {Undefined, ""} THEN b ELSE a

\* body.token || body["cf-turnstile-response"] || ""
TokenOf(b) == OrElse(OrElse(b.token, b.cfTurnstileResponse), "")

\* What an awaited outside call settles to.
Resolved(value) == [kind |-> "resolved", value |-> value]
Rejected == [kind |-> "rejected", value |-> ""]
Unsettled == [kind |-> "pending", value |-> ""]

\* validateToken: `success` of the siteverify answer (absent from a body
\* without it), or a rejection of the fetch or of result.json().
TokenOutcomes ==
    {Resolved("true"), Resolved("false"), Resolved(Undefined), Rejected}

\* !value on what validateToken returns
Falsy(value) == value \in {"false", Undefined}

\* assets.getItem("emails/contact.html"): by typeof, the template text (one
\* that renders, one that mustache cannot parse), null, a parsed value; or a
\* rejection of the storage.
TemplateOutcomes ==
    {Resolved("string"), Resolved("string:unclosed"), Resolved("null"),
     Resolved("object"), Rejected}

\* typeof template
TypeOf(value) ==
    IF value \in {"string", "string:unclosed"} THEN "string" ELSE "object"

\* client.messages.create: sent, or a rejection.
SendOutcomes == {Resolved("Queued. Thank you."), Rejected}

\* The site owner's address.
Owner == "me@mattcrandell.com"

\* An outside call: the service, what it is asked, what it settled to.
Asked(to, arg) == [to |-> to, arg |-> arg, got |-> Unsettled]

\* What the handler returns, or that it threw.
Reply(kind, text) == [kind |-> kind, text |-> text]

SuccessMessage ==
    <<"Thank you for contacting me, I will get back to you as soon as possible.">>

\* ----------------------------------------------------------------------- state

\* The import handlers that may run: one for the sequential specification,
\* both for the concurrent one.
Procs == {1, 2}

VARIABLES
    store,      \* the events table: a set of entities
    nextId,     \* the next generated primary key
    clock,      \* the time: the number of rows handled so far
    faults,     \* store failures injected so far
    pc,         \* per handler: "idle", "find", "save", "done" or "error"
    batch,      \* per handler: the rows of the uploaded file
    pos,        \* per handler: the index of the row being processed
    existing,   \* per handler: the result of findOneBy for the current row
    nmatch,     \* per handler: how many rows matched at that lookup
    results,    \* per handler: the outcome lines pushed so far
    before,     \* per handler: the natural keys in the table when it started
    prev,       \* <<>> or one record kept to compare with: the first of two
                \* runs of one file, or the state an import started from
    tries       \* per handler: store operations of the current row that
                \* timed out and are tried again

\* The Cloudflare worker in front of the site (one fetch event at a time).
VARIABLES
    wpc,        \* where the event is: "idle", "static", "asset", "ssr",
                \* "fallback", "catch" or "done"
    request,    \* the url of the event's request, <<>> when idle
    responded,  \* calls of event.respondWith for this event
    answer,     \* <<>>, or <<what the promise given to respondWith settled to>>
    calls,      \* the upstream calls made for this event, in order
    served      \* events handled so far

\* The contact form endpoint (one request at a time).
VARIABLES
    cpc,        \* where the handler is: "idle", "body", "token", "template", "owner",
                \* "submitter" or "done"
    status,     \* the response status set so far (200 unless set)
    body,       \* the body of the request, <<>> when idle
    error,      \* the details of the error validate reported, <<>> if none
    reply,      \* <<>> while the handler runs, then <<what it returned>>
    asked,      \* the outside calls made for this request, in order
    handled     \* requests handled so far

importVars ==
    <<store, nextId, clock, faults, pc, batch, pos, existing, nmatch,
      results, before, prev, tries>>
workerVars == <<wpc, request, responded, answer, calls, served>>
contactVars == <<cpc, status, body, error, reply, asked, handled>>
webVars == <<workerVars, contactVars>>

vars == <<importVars, webVars>>

\* An event entered before through the event controller (POST /events), with
\* the natural key of the walk-through row.
SeedEvent ==
    Entity(0,
           [name |-> "Pumpkin Night", slug |-> "pumpkin-festival",
            startsAt |-> <<2009, 10, 9, 20, 0, 0>>,
            endsAt |-> <<2009, 10, 9, 22, 0, 0>>,
            description |-> <<"Entered by hand">>,
            isFeatured |-> FALSE, isHasEndsAt |-> TRUE, isAllDay |-> FALSE,
            isActive |-> TRUE, hauntedBy |-> <<"Witch">>],
           0, 0)

\* What an import can change or report of the table: every row's id and
\* settable columns.
Data(st) == {[id |-> r.id, fields |-> Settable(r)] : r \in st}

Running(p) == pc[p] \in {"find", "save"}

\* Rows the running imports still have to handle.
RECURSIVE Pending(_)
Pending(P) ==
    IF P = {} THEN 0
    ELSE LET p == CHOOSE q \in P : TRUE
         IN (IF Running(p) THEN Len(batch[p]) - pos[p] + 1 ELSE 0)
            + Pending(P \ {p})

CurrentRow(p) == batch[p][pos[p]]

Init ==
    /\ store \in {{}, {SeedEvent}}
    /\ nextId = 1
    /\ clock = 0
    /\ faults = 0
    /\ pc = [p \in Procs |-> "idle"]
    /\ batch = [p \in Procs |-> <<>>]
    /\ pos = [p \in Procs |-> 1]
    /\ existing = [p \in Procs |-> {}]
    /\ nmatch = [p \in Procs |-> 0]
    /\ results = [p \in Procs |-> <<>>]
    /\ before = [p \in Procs |-> {}]
    /\ prev = <<>>
    /\ tries = [p \in Procs |-> 0]
    /\ wpc = "idle"
    /\ request = <<>>
    /\ responded = 0
    /\ answer = <<>>
    /\ calls = <<>>
    /\ served = 0
    /\ cpc = "idle"
    /\ status = 200
    /\ body = <<>>
    /\ error = <<>>
    /\ reply = <<>>
    /\ asked = <<>>
    /\ handled = 0

\* --------------------------------------------------------------------- actions

KeysOf(st) == {<<r.slug, r.startsAt>> : r \in st}

\* POST /api/events/import with an uploaded file: the parser is set up over
\* the buffer and the loop over its rows begins.
Begin(p, file) ==
    /\ pc[p] = "idle"
    /\ batch' = [batch EXCEPT ![p] = file]
    /\ pos' = [pos EXCEPT ![p] = 1]
    /\ results' = [results EXCEPT ![p] = <<>>]
    /\ before' = [before EXCEPT ![p] = KeysOf(store)]
    /\ pc' = [pc EXCEPT ![p] = "find"]
    /\ UNCHANGED <<store, nextId, clock, faults, existing, nmatch, tries, webVars>>

\* An upload is admitted while the run has rows left to spend.
StartImport(p, file) ==
    /\ pc[p] = "idle"
    /\ clock + Pending(Procs) + Len(file) <= MaxClock
    /\ Begin(p, file)
    /\ UNCHANGED prev

\* The file of the import that just returned is uploaded once more.
Rerun(p) ==
    /\ pc[p] = "idle"
    /\ prev # <<>>
    /\ ~prev[1].again
    /\ Begin(p, prev[1].batch)
    /\ prev' = <<[prev[1] EXCEPT !.again = TRUE]>>

\* The loop moves to the next row, or ends after the last one.
AfterRow(p) == IF pos[p] = Len(batch[p]) THEN "done" ELSE "find"

\* Variant: the failure of a row ends the loop.
RowFailedAbort(p, reason) ==
    /\ results' = [results EXCEPT
                     ![p] = Push(@, Line("failed", CurrentRow(p), reason))]
    /\ pos' = [pos EXCEPT ![p] = @ + 1]
    /\ pc' = [pc EXCEPT ![p] = "done"]
    /\ existing' = [existing EXCEPT ![p] = {}]
    /\ nmatch' = [nmatch EXCEPT ![p] = 0]
    /\ clock' = clock + 1
    /\ tries' = [tries EXCEPT ![p] = 0]
    /\ UNCHANGED <<store, nextId, batch, before, prev, webVars>>

\* The row threw: its failed line is recorded, nothing of it is written and
\* the loop goes on with the next row.
RowFailed(p, reason) ==
    /\ results' = [results EXCEPT
                     ![p] = Push(@, Line("failed", CurrentRow(p), reason))]
    /\ pos' = [pos EXCEPT ![p] = @ + 1]
    /\ pc' = [pc EXCEPT ![p] = AfterRow(p)]
    /\ existing' = [existing EXCEPT ![p] = {}]
    /\ nmatch' = [nmatch EXCEPT ![p] = 0]
    /\ clock' = clock + 1
    /\ tries' = [tries EXCEPT ![p] = 0]
    /\ UNCHANGED <<store, nextId, batch, before, prev, webVars>>

\* Step 1 - await repo.findOneBy({slug, startsAt: parse(row.starts_at)}). An
\* Invalid Date cannot be bound to the timestamptz parameter: the query
\* throws.
Find(p) ==
    /\ pc[p] = "find"
    /\ LET row == CurrentRow(p)
           at == parse(row.starts_at)
       IN IF ~IsValid(at)
          THEN RowFailed(p, "bad timestamp") /\ UNCHANGED faults
          ELSE /\ \E found \in FindOneBy(store, row.slug, at) :
                    existing' = [existing EXCEPT ![p] = found]
               /\ nmatch' = [nmatch EXCEPT
                     ![p] = Cardinality(Matching(store, row.slug, at))]
               /\ pc' = [pc EXCEPT ![p] = "save"]
               /\ UNCHANGED <<store, nextId, clock, faults, batch, pos,
                              results, before, prev, tries, webVars>>

\* Steps 2 and 3 - map the row, then merge into the entity found and save it,
\* or create and save a new one; push the line.
Save(p) ==
    /\ pc[p] = "save"
    /\ LET row == CurrentRow(p)
           eventData == EventData(row)
       IN IF ~IsValid(eventData.endsAt)
          THEN RowFailed(p, "bad timestamp") /\ UNCHANGED faults
          ELSE /\ IF existing[p] # {}
                  THEN LET e == CHOOSE x \in existing[p] : TRUE
                       IN /\ store' = SaveExisting(store, Merge(e, eventData),
                                                   clock + 1)
                          /\ nextId' = nextId
                          /\ results' = [results EXCEPT
                                ![p] = Push(@, Line("Updated", row, ""))]
                  ELSE /\ store' = SaveNew(store, eventData, nextId, clock + 1)
                       /\ nextId' = nextId + 1
                       /\ results' = [results EXCEPT
                             ![p] = Push(@, Line("Created", row, ""))]
               /\ pos' = [pos EXCEPT ![p] = @ + 1]
               /\ pc' = [pc EXCEPT ![p] = AfterRow(p)]
               /\ existing' = [existing EXCEPT ![p] = {}]
               /\ clock' = clock + 1
               /\ tries' = [tries EXCEPT ![p] = 0]
               /\ UNCHANGED <<faults, batch, nmatch, before, prev, webVars>>

\* The store fails on the lookup (connection failure, timeout).
FailRead(p) ==
    /\ pc[p] = "find"
    /\ faults < MaxFaults
    /\ faults' = faults + 1
    /\ RowFailed(p, "store failure")

\* The store fails on the save.
FailWrite(p) ==
    /\ pc[p] = "save"
    /\ faults < MaxFaults
    /\ faults' = faults + 1
    /\ RowFailed(p, "store failure")

\* The handler answers with the lines.
Respond(p) ==
    /\ pc[p] = "done"
    /\ pc' = [pc EXCEPT ![p] = "idle"]
    /\ batch' = [batch EXCEPT ![p] = <<>>]
    /\ pos' = [pos EXCEPT ![p] = 1]
    /\ results' = [results EXCEPT ![p] = <<>>]
    /\ before' = [before EXCEPT ![p] = {}]
    /\ nmatch' = [nmatch EXCEPT ![p] = 0]
    /\ UNCHANGED <<store, nextId, clock, faults, existing, tries, webVars>>

Return(p) == Respond(p) /\ UNCHANGED prev

\* The first of two runs answers; what it reported and left in the table is
\* kept to compare the second run with.
ReturnFirst(p) ==
    /\ prev = <<>>
    /\ prev' = <<[batch |-> batch[p], results |-> results[p],
                  before |-> before[p], data |-> Data(store),
                  again |-> FALSE]>>
    /\ Respond(p)

\* upload.single("file") calls back with an error (a multipart body that
\* multer cannot read). The awaited promise rejects, before the parser is set
\* up.
UploadFails(p) ==
    /\ pc[p] = "idle"
    /\ pc' = [pc EXCEPT ![p] = "error"]
    /\ UNCHANGED <<store, nextId, clock, faults, batch, pos, existing,
                   nmatch, results, before, prev, tries, webVars>>

\* The rejection leaves importCsv: the call fails, without lines.
Throw(p) ==
    /\ pc[p] = "error"
    /\ pc' = [pc EXCEPT ![p] = "idle"]
    /\ UNCHANGED <<store, nextId, clock, faults, batch, pos, existing,
                   nmatch, results, before, prev, tries, webVars>>

\* An upload is admitted: the buffer multer kept in memory is piped into the
\* parser, whatever its bytes.
Upload(p, buffer) ==
    /\ pc[p] = "idle"
    /\ StartImport(p, Decode(buffer))

\* An upload is admitted; the table, key counter and time it starts from are
\* kept to compare with.
StartFrom(p, file) ==
    /\ pc[p] = "idle"
    /\ clock + Pending(Procs) + Len(file) <= MaxClock
    /\ Begin(p, file)
    /\ prev' = <<[store |-> store, nextId |-> nextId, clock |-> clock,
                  lines |-> <<>>]>>

\* Variant: stopping undoes what the import wrote.
CancelRollback(p) ==
    /\ pc[p] = "find"
    /\ pc' = [pc EXCEPT ![p] = "done"]
    /\ store' = prev[1].store
    /\ UNCHANGED <<nextId, clock, faults, batch, pos, existing, nmatch,
                   results, before, prev, tries, webVars>>

\* The import stops consuming the rows: the loop is left between two rows.
Cancel(p) ==
    /\ pc[p] = "find"
    /\ pc' = [pc EXCEPT ![p] = "done"]
    /\ UNCHANGED <<store, nextId, clock, faults, batch, pos, existing,
                   nmatch, results, before, prev, tries, webVars>>

\* The handler answers with the lines it has; the record kept is dropped.
ReturnFrom(p) == Respond(p) /\ prev' = <<>>

\* Variant: a store operation that timed out is tried again, however often
\* it did so before.
TimeoutRetryAlways(p) ==
    /\ pc[p] \in {"find", "save"}
    /\ faults < MaxTimeouts
    /\ faults' = faults + 1
    /\ tries' = [tries EXCEPT ![p] = @ + 1]
    /\ UNCHANGED <<store, nextId, clock, pc, batch, pos, existing, nmatch,
                   results, before, prev, webVars>>

\* The lookup or the save of the current row times out. The first time for
\* this row the operation is tried again; a second time fails the row.
Timeout(p) ==
    /\ pc[p] \in {"find", "save"}
    /\ faults < MaxTimeouts
    /\ faults' = faults + 1
    /\ IF tries[p] = 0
       THEN /\ tries' = [tries EXCEPT ![p] = 1]
            /\ UNCHANGED <<store, nextId, clock, pc, batch, pos, existing,
                           nmatch, results, before, prev, webVars>>
       ELSE RowFailed(p, "store failure")

\* Variant: the rows are dealt out to the workers without regard to their
\* keys.
AssignmentsAny(file) == [1..Len(file) -> Procs]

\* The ways to deal the rows of a file out to the workers by natural key:
\* rows with the same key go to the same worker.
Assignments(file) ==
    {w \in [1..Len(file) -> Procs] :
        \A i, j \in 1..Len(file) :
            <<file[i].slug, parse(file[i].starts_at)>>
                = <<file[j].slug, parse(file[j].starts_at)>>
            => w[i] = w[j]}

\* The rows dealt to worker p, in file order.
Partition(file, w, p) ==
    LET mine == {i \in 1..Len(file) : w[i] = p}
    IN [k \in 1..Cardinality(mine) |->
          file[CHOOSE i \in mine :
                  Cardinality({j \in mine : j <= i}) = k]]

\* One upload is split by natural key and each worker starts on its part;
\* the file, the split and the state it starts from are kept.
StartPartitioned(file, w) ==
    /\ \A p \in Procs : pc[p] = "idle"
    /\ clock + Len(file) <= MaxClock
    /\ batch' = [p \in Procs |-> Partition(file, w, p)]
    /\ pc' = [p \in Procs |->
                IF Partition(file, w, p) = <<>> THEN "done" ELSE "find"]
    /\ pos' = [p \in Procs |-> 1]
    /\ results' = [p \in Procs |-> <<>>]
    /\ before' = [p \in Procs |-> KeysOf(store)]
    /\ prev' = <<[store |-> store, nextId |-> nextId, clock |-> clock,
                  lines |-> <<>>, file |-> file, worker |-> w]>>
    /\ UNCHANGED <<store, nextId, clock, faults, existing, nmatch, tries, webVars>>

\* Every worker is through: the lines are handed back.
Join ==
    /\ \A p \in Procs : pc[p] = "done"
    /\ pc' = [p \in Procs |-> "idle"]
    /\ batch' = [p \in Procs |-> <<>>]
    /\ pos' = [p \in Procs |-> 1]
    /\ results' = [p \in Procs |-> <<>>]
    /\ before' = [p \in Procs |-> {}]
    /\ nmatch' = [p \in Procs |-> 0]
    /\ prev' = <<>>
    /\ UNCHANGED <<store, nextId, clock, faults, existing, tries, webVars>>

\* The lookup of a row and the write it decides on as one transaction on the
\* store: no other handler's step falls between them.
Upsert(p) ==
    /\ pc[p] = "find"
    /\ LET row == CurrentRow(p)
           eventData == EventData(row)
       IN IF ~IsValid(eventData.startsAt) \/ ~IsValid(eventData.endsAt)
          THEN RowFailed(p, "bad timestamp") /\ UNCHANGED faults
          ELSE /\ \E found \in FindOneBy(store, row.slug, eventData.startsAt) :
                    IF found # {}
                    THEN LET e == CHOOSE x \in found : TRUE
                         IN /\ store' = SaveExisting(store,
                                                     Merge(e, eventData),
                                                     clock + 1)
                            /\ nextId' = nextId
                            /\ results' = [results EXCEPT
                                  ![p] = Push(@, Line("Updated", row, ""))]
                    ELSE /\ store' = SaveNew(store, eventData, nextId,
                                             clock + 1)
                         /\ nextId' = nextId + 1
                         /\ results' = [results EXCEPT
                               ![p] = Push(@, Line("Created", row, ""))]
               /\ nmatch' = [nmatch EXCEPT
                     ![p] = Cardinality(Matching(store, row.slug,
                                                 eventData.startsAt))]
               /\ pos' = [pos EXCEPT ![p] = @ + 1]
               /\ pc' = [pc EXCEPT ![p] = AfterRow(p)]
               /\ clock' = clock + 1
               /\ tries' = [tries EXCEPT ![p] = 0]
               /\ UNCHANGED <<faults, batch, existing, before, prev, webVars>>

\* ---------------------------------------------------------- worker actions

\* The worker takes no part in the imports, nor in the contact form.
WorkerOnly == UNCHANGED <<importVars, contactVars>>

\* The fetch listener: a path ending in .html is tried as a static file,
\* everything else goes to Nitro. Either branch calls respondWith once.
OnFetch(url) ==
    /\ wpc = "idle"
    /\ served < MaxEvents
    /\ request' = url
    /\ responded' = 1
    /\ wpc' = IF EndsWith(Pathname(url), DotHtml) THEN "static" ELSE "ssr"
    /\ UNCHANGED <<answer, calls, served>>
    /\ WorkerOnly

\* Variant: whatever the static server answers is served.
StaticSettlesAnyStatus ==
    /\ wpc = "static"
    /\ \E got \in StaticOutcomes :
          /\ calls' = Append(calls, Call("fetch", got))
          /\ IF got.kind = "response"
             THEN answer' = <<got>> /\ wpc' = "done"
             ELSE answer' = answer /\ wpc' = "catch"
    /\ UNCHANGED <<request, responded, served>>
    /\ WorkerOnly

\* handleHtmlRequest, the awaited fetch(request) settles: a response with
\* status 200 is returned; with another status Nitro is called inside the try;
\* a rejection is caught and Nitro is called in the catch.
StaticSettles ==
    /\ wpc = "static"
    /\ \E got \in StaticOutcomes :
          /\ calls' = Append(calls, Call("fetch", got))
          /\ IF got.kind = "response" /\ got.code = 200
             THEN answer' = <<got>> /\ wpc' = "done"
             ELSE IF got.kind = "response"
             THEN answer' = answer /\ wpc' = "fallback"
             ELSE answer' = answer /\ wpc' = "catch"
    /\ UNCHANGED <<request, responded, served>>
    /\ WorkerOnly

\* The awaited nitroWorker.fetch settles. What it settles to is what
\* respondWith gets, except for a rejection inside the try of
\* handleHtmlRequest: that one is caught and Nitro is called once more.
NitroSettles ==
    /\ wpc \in {"ssr", "fallback", "catch"}
    /\ \E got \in NitroOutcomes :
          /\ calls' = Append(calls, Call("nitro", got))
          /\ IF got.kind = "thrown" /\ wpc = "fallback"
             THEN answer' = answer /\ wpc' = "catch"
             ELSE answer' = <<got>> /\ wpc' = "done"
    /\ UNCHANGED <<request, responded, served>>
    /\ WorkerOnly

\* The fetch listener of the variant that serves the prerendered pages from
\* the KV store. The other requests are forwarded with `env` and `ctx`, which
\* the script never declares: where the runtime has no such globals,
\* evaluating the arguments throws and respondWith is not reached.
OnFetchAssets(url, globals) ==
    /\ wpc = "idle"
    /\ served < MaxEvents
    /\ request' = url
    /\ IF EndsWith(Pathname(url), DotHtml)
       THEN responded' = 1 /\ wpc' = "asset" /\ answer' = answer
       ELSE IF globals
       THEN responded' = 1 /\ wpc' = "ssr" /\ answer' = answer
       ELSE responded' = 0 /\ wpc' = "done" /\ answer' = <<ListenerThrew>>
    /\ UNCHANGED <<calls, served>>
    /\ WorkerOnly

\* Variant: an asset that cannot be read is rendered by Nitro.
AssetSettlesFallsBack ==
    /\ wpc = "asset"
    /\ \E got \in AssetOutcomes :
          /\ calls' = Append(calls, Call("kv", got))
          /\ IF got.kind = "response"
             THEN answer' = <<got>> /\ wpc' = "done"
             ELSE answer' = answer /\ wpc' = "catch"
    /\ UNCHANGED <<request, responded, served>>
    /\ WorkerOnly

\* handleStatic, the awaited getAssetFromKV(event) settles: the asset is
\* returned; a rejection is caught and answered with the 404 response.
AssetSettles ==
    /\ wpc = "asset"
    /\ \E got \in AssetOutcomes :
          /\ calls' = Append(calls, Call("kv", got))
          /\ answer' = IF got.kind = "response" THEN <<got>> ELSE <<NotFound>>
          /\ wpc' = "done"
    /\ UNCHANGED <<request, responded, served>>
    /\ WorkerOnly

\* The event is over; the worker waits for the next one.
EventEnds ==
    /\ wpc = "done"
    /\ wpc' = "idle"
    /\ request' = <<>>
    /\ responded' = 0
    /\ answer' = <<>>
    /\ calls' = <<>>
    /\ served' = served + 1
    /\ WorkerOnly

\* --------------------------------------------------- contact form actions

\* The handler takes no part in the imports, nor in the worker.
ContactOnly == UNCHANGED <<importVars, workerVars>>

\* The pending call, the last one asked, settles to got.
Settle(log, got) == [log EXCEPT ![Len(log)].got = got]

\* The handler returns (or throws) and the request is answered.
Answer(kind, text) ==
    /\ reply' = <<Reply(kind, text)>>
    /\ cpc' = "done"

\* A POST arrives: the handler awaits readBody(event).
Post ==
    /\ cpc = "idle"
    /\ handled < MaxPosts
    /\ cpc' = "body"
    /\ UNCHANGED <<status, body, error, reply, asked, handled>>
    /\ ContactOnly

\* readBody settles. A rejection leaves the handler as an exception. A body
\* is validated: an error is answered with status 403 and its details;
\* otherwise validateToken posts the token to siteverify.
BodySettles(got, details) ==
    /\ cpc = "body"
    /\ IF got = <<>>
       THEN /\ Answer("thrown", <<"readBody">>)
            /\ UNCHANGED <<status, body, error, asked>>
       ELSE /\ body' = got[1]
            /\ error' = details
            /\ IF details # <<>>
               THEN /\ status' = 403
                    /\ Answer("details", details)
                    /\ asked' = asked
               ELSE /\ asked' = <<Asked("siteverify", TokenOf(got[1]))>>
                    /\ cpc' = "token"
                    /\ UNCHANGED <<status, reply>>
    /\ UNCHANGED handled
    /\ ContactOnly

\* Variant: only an explicit refusal stops the handler.
TokenSettlesUnlessFalse ==
    /\ cpc = "token"
    /\ \E got \in TokenOutcomes :
          /\ IF got.kind = "rejected"
             THEN /\ Answer("thrown", <<"siteverify">>)
                  /\ asked' = Settle(asked, got)
                  /\ status' = status
             ELSE IF got.value = "false"
             THEN /\ status' = 400
                  /\ Answer("error", <<"Invalid token">>)
                  /\ asked' = Settle(asked, got)
             ELSE /\ asked' = Append(Settle(asked, got),
                                     Asked("getItem", "emails/contact.html"))
                  /\ cpc' = "template"
                  /\ UNCHANGED <<status, reply>>
    /\ UNCHANGED <<body, error, handled>>
    /\ ContactOnly

\* validateToken settles: a falsy `success` is answered with status 400; a
\* rejection leaves the handler as an exception; otherwise the template is
\* read from the server assets.
TokenSettles ==
    /\ cpc = "token"
    /\ \E got \in TokenOutcomes :
          /\ IF got.kind = "rejected"
             THEN /\ Answer("thrown", <<"siteverify">>)
                  /\ asked' = Settle(asked, got)
                  /\ status' = status
             ELSE IF Falsy(got.value)
             THEN /\ status' = 400
                  /\ Answer("error", <<"Invalid token">>)
                  /\ asked' = Settle(asked, got)
             ELSE /\ asked' = Append(Settle(asked, got),
                                     Asked("getItem", "emails/contact.html"))
                  /\ cpc' = "template"
                  /\ UNCHANGED <<status, reply>>
    /\ UNCHANGED <<body, error, handled>>
    /\ ContactOnly

\* assets.getItem settles: anything but a text is answered with status 500;
\* a template mustache cannot render throws before the try; otherwise the
\* first mail is rendered and sent to the owner.
TemplateSettles ==
    /\ cpc = "template"
    /\ \E got \in TemplateOutcomes :
          /\ IF got.kind = "rejected"
             THEN /\ Answer("thrown", <<"getItem">>)
                  /\ asked' = Settle(asked, got)
                  /\ status' = status
             ELSE IF TypeOf(got.value) # "string"
             THEN /\ status' = 500
                  /\ Answer("error", <<"Email template not found.">>)
                  /\ asked' = Settle(asked, got)
             ELSE IF got.value = "string:unclosed"
             THEN /\ Answer("thrown", <<"render">>)
                  /\ asked' = Settle(asked, got)
                  /\ status' = status
             ELSE /\ asked' = Append(Settle(asked, got), Asked("mail", Owner))
                  /\ cpc' = "owner"
                  /\ UNCHANGED <<status, reply>>
    /\ UNCHANGED <<body, error, handled>>
    /\ ContactOnly

\* Variant: the confirmation is sent whatever became of the first mail.
OwnerSettlesSendsAnyway ==
    /\ cpc = "owner"
    /\ \E got \in SendOutcomes :
          /\ asked' = Append(Settle(asked, got), Asked("mail", body.email))
          /\ cpc' = "submitter"
          /\ UNCHANGED <<status, reply>>
    /\ UNCHANGED <<body, error, handled>>
    /\ ContactOnly

\* The mail to the owner settles: once sent, the confirmation is rendered
\* and sent to the submitter; a rejection is caught and returned.
OwnerSettles ==
    /\ cpc = "owner"
    /\ \E got \in SendOutcomes :
          /\ IF got.kind = "rejected"
             THEN /\ Answer("caught", <<"mail", Owner>>)
                  /\ asked' = Settle(asked, got)
                  /\ status' = status
             ELSE /\ asked' = Append(Settle(asked, got),
                                     Asked("mail", body.email))
                  /\ cpc' = "submitter"
                  /\ UNCHANGED <<status, reply>>
    /\ UNCHANGED <<body, error, handled>>
    /\ ContactOnly

\* The mail to the submitter settles: once sent, the success message is
\* returned; a rejection is caught and returned.
SubmitterSettles ==
    /\ cpc = "submitter"
    /\ \E got \in SendOutcomes :
          /\ asked' = Settle(asked, got)
          /\ IF got.kind = "rejected"
             THEN Answer("caught", <<"mail", body.email>>)
             ELSE Answer("success", SuccessMessage)
    /\ UNCHANGED <<status, body, error, handled>>
    /\ ContactOnly

\* The response is out; the handler waits for the next request.
RequestEnds ==
    /\ cpc = "done"
    /\ cpc' = "idle"
    /\ status' = 200
    /\ body' = <<>>
    /\ error' = <<>>
    /\ reply' = <<>>
    /\ asked' = <<>>
    /\ handled' = handled + 1
    /\ ContactOnly

\* Imports run one after the other.
Next ==
    \/ \E file \in Files : StartImport(1, file)
    \/ Find(1)
    \/ Save(1)
    \/ FailRead(1)
    \/ FailWrite(1)
    \/ Return(1)

Spec == Init /\ [][Next]_vars

\* Two imports run at the same time; the store does not fail.
NextConc ==
    \E p \in Procs :
        \/ \E file \in ConcFiles : StartImport(p, file)
        \/ Find(p)
        \/ Save(p)
        \/ Return(p)

SpecConc == Init /\ [][NextConc]_vars

\* One file is imported twice in a row; nothing else touches the table and
\* the store does not fail.
NextTwice ==
    \/ prev = <<>> /\ \E file \in Files : StartImport(1, file)
    \/ Find(1)
    \/ Save(1)
    \/ ReturnFirst(1)
    \/ Rerun(1)

SpecTwice == Init /\ [][NextTwice]_vars

\* Two imports run at the same time, each row in one transaction.
NextAtomic ==
    \E p \in Procs :
        \/ \E file \in AtomicFiles : StartImport(p, file)
        \/ Upsert(p)
        \/ Return(p)

SpecAtomic == Init /\ [][NextAtomic]_vars

\* Imports run one after the other; the multipart body may be unreadable
\* and the buffer may hold bytes that are not UTF-8.
NextUpload ==
    \/ \E buffer \in Buffers : Upload(1, buffer)
    \/ UploadFails(1)
    \/ Throw(1)
    \/ Find(1)
    \/ Save(1)
    \/ Return(1)

SpecUpload == Init /\ [][NextUpload]_vars

\* Imports run one after the other and may stop early; the store does not
\* fail.
NextCancel ==
    \/ \E file \in Files : StartFrom(1, file)
    \/ Find(1)
    \/ Save(1)
    \/ Cancel(1)
    \/ ReturnFrom(1)

SpecCancel == Init /\ [][NextCancel]_vars

\* One file is imported, to watch how its rows are mapped and stored.
NextNorm ==
    \/ clock = 0 /\ \E file \in NormFiles : StartImport(1, file)
    \/ Find(1)
    \/ Save(1)
    \/ Return(1)

SpecNorm == Init /\ [][NextNorm]_vars

\* Imports run one after the other; store operations may time out and are
\* retried once per row.
NextRetry ==
    \/ \E file \in ConcFiles : StartImport(1, file)
    \/ Find(1)
    \/ Save(1)
    \/ Timeout(1)
    \/ Return(1)

SpecRetry == Init /\ [][NextRetry]_vars

\* The rows of one upload are processed by two workers, split by natural
\* key; the store does not fail.
NextPartitioned ==
    \/ /\ \A p \in Procs : pc[p] = "idle"
       /\ \E file \in AtomicFiles :
             /\ clock + Len(file) <= MaxClock
             /\ \E w \in Assignments(file) : StartPartitioned(file, w)
    \/ \E p \in Procs : Find(p)
    \/ \E p \in Procs : Save(p)
    \/ Join

SpecPartitioned == Init /\ [][NextPartitioned]_vars

\* The worker runs alone, on an empty events table.
InitWorker == Init /\ store = {}

\* The worker that tries the static file first.
NextHtmlFirst ==
    \/ \E url \in Urls : OnFetch(url)
    \/ StaticSettles
    \/ NitroSettles
    \/ EventEnds

SpecHtmlFirst == InitWorker /\ [][NextHtmlFirst]_vars

\* The worker that serves the prerendered pages from the KV store.
NextAssets ==
    \/ \E url \in Urls, globals \in BOOLEAN : OnFetchAssets(url, globals)
    \/ AssetSettles
    \/ NitroSettles
    \/ EventEnds

SpecAssets == InitWorker /\ [][NextAssets]_vars

\* The contact form endpoint, on an empty events table.
NextContact ==
    \/ Post
    \/ \E got \in ReadBodyOutcomes, details \in ValidationOutcomes :
          BodySettles(got, details)
    \/ TokenSettles
    \/ TemplateSettles
    \/ OwnerSettles
    \/ SubmitterSettles
    \/ RequestEnds

SpecContact == InitWorker /\ [][NextContact]_vars

\* ---------------------------------------------------------------- properties

\* The natural key a row names.
KeyOfRow(row) == <<row.slug, parse(row.starts_at)>>

ValidRow(row) == IsValid(parse(row.starts_at)) /\ IsValid(parse(row.ends_at))

AllRowsValid(b) == \A i \in DOMAIN b : ValidRow(b[i])

\* The table's rows carrying the natural key k.
WithKey(st, k) == {r \in st : <<r.slug, r.startsAt>> = k}

NoDuplicateKeys(st) ==
    \A r1, r2 \in st :
        (r1.slug = r2.slug /\ r1.startsAt = r2.startsAt) => r1 = r2

Last(q) == q[Len(q)]

\* Handler p finishes its current row in this step.
RowDone(p) == pos'[p] = pos[p] + 1

AllKind(res, kind) == \A i \in DOMAIN res : res[i].kind = kind

\* The second run of the file has processed its last row.
SecondRunDone == prev # <<>> /\ prev[1].again /\ pc[1] = "done"

\* C1 as stated: for every valid batch, the first of two runs reports Created
\* for every row, the second reports Updated for every row, and the table
\* after the second run equals the table after the first, without duplicates.
C1_Original ==
    (SecondRunDone /\ AllRowsValid(batch[1])) =>
        /\ AllKind(prev[1].results, "Created")
        /\ AllKind(results[1], "Updated")
        /\ Data(store) = prev[1].data
        /\ NoDuplicateKeys(store)

\* C1 (amended): for every valid batch run twice in a row, the second run
\* reports Updated for every row, the table after the second run holds the
\* same records with the same settable columns as after the first, without
\* duplicates; the first run reports Created exactly for the rows whose
\* natural key was neither in the table beforehand nor named by an earlier
\* row of the batch, and Updated for the others.
C1_Idempotent ==
    (SecondRunDone /\ AllRowsValid(batch[1])) =>
        /\ AllKind(results[1], "Updated")
        /\ Data(store) = prev[1].data
        /\ NoDuplicateKeys(store)
        /\ \A i \in DOMAIN prev[1].results :
              LET k == KeyOfRow(batch[1][i])
                  fresh == /\ k \notin prev[1].before
                           /\ \A j \in 1..(i - 1) : KeyOfRow(batch[1][j]) # k
              IN prev[1].results[i].kind = (IF fresh THEN "Created" ELSE "Updated")

\* A file of several valid rows with distinct new keys has been run twice:
\* all Created, then all Updated.
C1_Witness ==
    /\ SecondRunDone
    /\ AllRowsValid(batch[1])
    /\ Len(batch[1]) >= 2
    /\ AllKind(prev[1].results, "Created")
    /\ AllKind(results[1], "Updated")
    /\ Data(store) = prev[1].data

\* C2: with imports running one after the other from a table without
\* duplicates, the table never holds two rows with the same slug and startsAt.
C2_NaturalKeyUnique == NoDuplicateKeys(store)

\* Several rows are stored and one of them has been updated by a later row.
C2_Witness ==
    /\ Cardinality(store) >= 2
    /\ \E r \in store : r.updatedAt > r.createdAt

\* Rows i < j of handler 1's file are the first two handled rows naming the
\* key k, which the table did not hold when the import started.
FirstTwoOfKey(i, j, k) ==
    /\ i < j
    /\ KeyOfRow(batch[1][i]) = k
    /\ KeyOfRow(batch[1][j]) = k
    /\ k \notin before[1]
    /\ results[1][i].kind # "failed"
    /\ results[1][j].kind # "failed"
    /\ \A m \in 1..(j - 1) :
          m # i => (KeyOfRow(batch[1][m]) # k \/ results[1][m].kind = "failed")

\* C3: two rows of one batch with the same slug and startsAt, the key not in
\* the table beforehand: the first is Created, the second is Updated, and
\* once the second is handled the table holds exactly one row for the key,
\* carrying the second row's values.
C3_DuplicateKeyInBatch ==
    \A i, j \in 1..Len(results[1]) :
        LET k == KeyOfRow(batch[1][i])
        IN FirstTwoOfKey(i, j, k) =>
              /\ results[1][i].kind = "Created"
              /\ results[1][j].kind = "Updated"
              /\ j = Len(results[1]) =>
                    /\ Cardinality(WithKey(store, k)) = 1
                    /\ \A r \in WithKey(store, k) :
                          Settable(r) = EventData(batch[1][j])

\* The second of two such rows, differing from the first in other columns,
\* has just been handled.
C3_Witness ==
    \E i, j \in 1..Len(results[1]) :
        /\ FirstTwoOfKey(i, j, KeyOfRow(batch[1][i]))
        /\ j = Len(results[1])
        /\ EventData(batch[1][i]) # EventData(batch[1][j])
        /\ \E r \in store : Settable(r) = EventData(batch[1][j])

\* C4: a row that is not failed is Updated exactly when the table, as the row
\* is processed, holds a row with its slug and exactly its start instant, and
\* Created exactly when it holds none; a valid row is failed only when the
\* store fails. No other column takes part.
C4_UpsertDecision ==
    [][RowDone(1) =>
         LET row == CurrentRow(1)
             line == Last(results'[1])
             held == \E r \in store :
                        r.slug = row.slug /\ r.startsAt = parse(row.starts_at)
         IN /\ line.kind # "failed" =>
                  /\ line.kind = "Updated" <=> held
                  /\ line.kind = "Created" <=> ~held
            /\ (ValidRow(row) /\ faults' = faults) => line.kind # "failed"]_vars

\* A row was Updated although the stored row differed from it in name, and
\* another row was Created.
C4_Witness ==
    /\ \E i \in DOMAIN results[1] : results[1][i].kind = "Created"
    /\ \E i \in DOMAIN results[1] :
          /\ results[1][i].kind = "Updated"
          /\ SeedEvent.name # batch[1][i].name
          /\ KeyOfRow(batch[1][i]) \in before[1]

\* The datetime cells of the row universe that are not datetimes.
UnparseableTexts == {T_Soon}

Kinds(res) == [i \in DOMAIN res |-> res[i].kind]

\* Handler 1 ran a three-row file against an empty table with no store
\* failure: rows 1 and 3 are good and name different keys, row 2 has an
\* unparseable starts_at.
BadMiddleRowFile ==
    /\ pc[1] = "done"
    /\ Len(batch[1]) = 3
    /\ before[1] = {}
    /\ \A i \in DOMAIN results[1] : results[1][i].reason # "store failure"
    /\ batch[1][2].starts_at \in UnparseableTexts
    /\ batch[1][1].starts_at \notin UnparseableTexts
    /\ batch[1][3].starts_at \notin UnparseableTexts
    /\ KeyOfRow(batch[1][1]) # KeyOfRow(batch[1][3])

\* What the report and the table show of rows with an unparseable starts_at.
BadRowsReported ==
    /\ \A i \in DOMAIN results[1] :
          batch[1][i].starts_at \in UnparseableTexts
              => results[1][i].kind = "failed"
    /\ pc[1] = "done" => Len(results[1]) = Len(batch[1])
    /\ BadMiddleRowFile =>
          /\ Kinds(results[1]) = <<"Created", "failed", "Created">>
          /\ Cardinality(store) = 2
          /\ \A i \in {1, 3} :
                \E r \in store : Settable(r) = EventData(batch[1][i])

\* C5: a row with an unparseable starts_at is reported failed and writes
\* nothing, the rows after it are still processed, and there is one line per
\* row: [Created, failed, Created] with rows 1 and 3 stored for a three-row
\* file with a bad row 2 against an empty table.
C5_BadRowIsolated ==
    /\ []BadRowsReported
    /\ [][(RowDone(1) /\ CurrentRow(1).starts_at \in UnparseableTexts) =>
            /\ store' = store
            /\ nextId' = nextId
            /\ pc'[1] = (IF pos[1] = Len(batch[1]) THEN "done" ELSE "find")]_vars

\* The three-row file with the bad middle row has been imported.
C5_Witness ==
    /\ BadMiddleRowFile
    /\ Kinds(results[1]) = <<"Created", "failed", "Created">>
    /\ Cardinality(store) = 2

\* C6: when the store fails on the lookup or the save of a row, that row is
\* reported failed with the reason, the table keeps no effect of it, the loop
\* goes on with the next row, and the report is complete when the import
\* ends.
C6_StoreFailureIsolated ==
    [][/\ pc'[1] = "done" => Len(results'[1]) = Len(batch'[1])
       /\ faults' = faults + 1 =>
            /\ store' = store
            /\ nextId' = nextId
            /\ batch' = batch
            /\ Len(results'[1]) = Len(results[1]) + 1
            /\ SubSeq(results'[1], 1, Len(results[1])) = results[1]
            /\ Last(results'[1]).kind = "failed"
            /\ Last(results'[1]).reason = "store failure"
            /\ Last(results'[1]).name = CurrentRow(1).name
            /\ pos'[1] = pos[1] + 1
            /\ pc'[1] = (IF pos[1] = Len(batch[1]) THEN "done" ELSE "find")]_vars

\* The store failed on a row and a later row of the same file was saved.
C6_Witness ==
    /\ pc[1] = "done"
    /\ \E i, j \in DOMAIN results[1] :
          /\ i < j
          /\ results[1][i].reason = "store failure"
          /\ results[1][j].kind \in {"Created", "Updated"}
          /\ \E r \in store : Settable(r) = EventData(batch[1][j])

\* Handler p saves, in this step, a row whose lookup matched several rows.
AmbiguousRowDone(p) == pc[p] = "save" /\ nmatch[p] >= 2 /\ RowDone(p)

\* C7: a row whose natural key is held by more than one stored row
\* is reported failed with reason "ambiguous natural key" and nothing is
\* written.
C7_Original ==
    [][\A p \in Procs :
         AmbiguousRowDone(p) =>
            /\ Last(results'[p]).kind = "failed"
            /\ Last(results'[p]).reason = "ambiguous natural key"
            /\ store' = store]_vars

\* C8: the report has one line per processed row, the i-th line names the
\* i-th row of the file (its name and its starts_at text) with one of the
\* three kinds, and the finished report has as many lines as the file has
\* rows.
C8_ReportInRowOrder ==
    /\ Len(results[1]) = pos[1] - 1
    /\ pc[1] = "done" => Len(results[1]) = Len(batch[1])
    /\ \A i \in DOMAIN results[1] :
          /\ results[1][i].name = batch[1][i].name
          /\ results[1][i].at = batch[1][i].starts_at
          /\ results[1][i].kind \in {"Created", "Updated", "failed"}

\* A three-line report of three differently named rows, with a Created and
\* an Updated line.
C8_Witness ==
    /\ pc[1] = "done"
    /\ Len(results[1]) = 3
    /\ batch[1][1].name # batch[1][2].name
    /\ batch[1][2].name # batch[1][3].name
    /\ batch[1][1].name # batch[1][3].name
    /\ \E i \in 1..3 : results[1][i].kind = "Created"
    /\ \E i \in 1..3 : results[1][i].kind = "Updated"

\* C9: no step of an import removes a stored row: every id in the table
\* before the step is in the table after it, and the table does not shrink.
C9_NeverDeletes ==
    [][/\ \A r \in store : \E r2 \in store' : r2.id = r.id
       /\ Cardinality(store') >= Cardinality(store)]_vars

\* A stored row has been overwritten by an import and is still there, beside
\* another one.
C9_Witness ==
    /\ Cardinality(store) >= 2
    /\ \E r \in store : r.id = 0 /\ r.updatedAt > r.createdAt

\* Both handlers hold rows naming the same key and both lookups found nothing.
BothMissed ==
    /\ pc[1] = "save" /\ pc[2] = "save"
    /\ existing[1] = {} /\ existing[2] = {}
    /\ KeyOfRow(CurrentRow(1)) = KeyOfRow(CurrentRow(2))

\* C10: with the lookup and the save as separate steps, a handler whose
\* lookup found nothing inserts a row for the key whatever the other handler
\* has inserted since, so two handlers that both missed the same key leave
\* two rows for it.
C10_RaceInsertsTwice ==
    [][\A p \in Procs :
         (pc[p] = "save" /\ existing[p] = {} /\ RowDone(p)) =>
            LET k == KeyOfRow(CurrentRow(p))
            IN /\ Last(results'[p]).kind = "Created"
               /\ Cardinality(WithKey(store', k))
                    = Cardinality(WithKey(store, k)) + 1]_vars

\* Two handlers each reported Created for the same key and the table holds
\* two rows for it.
C10_Witness ==
    /\ results[1] # <<>> /\ results[2] # <<>>
    /\ Last(results[1]).kind = "Created"
    /\ Last(results[2]).kind = "Created"
    /\ KeyOfRow(batch[1][Len(results[1])]) = KeyOfRow(batch[2][Len(results[2])])
    /\ before[1] = {} /\ before[2] = {}
    /\ Cardinality(WithKey(store, KeyOfRow(batch[1][Len(results[1])]))) = 2

\* C11: when the lookup and the write of each row are one atomic unit, in
\* every interleaving of two imports no natural key is carried by two records,
\* and a row is reported Created only in a step that found no record of its
\* key and inserted the one record that carries it.
C11_AtomicUpsertSafe ==
    /\ [](NoDuplicateKeys(store))
    /\ [][\A p \in Procs :
            (RowDone(p) /\ Last(results'[p]).kind = "Created")
            => /\ WithKey(store, KeyOfRow(CurrentRow(p))) = {}
               /\ Cardinality(WithKey(store', KeyOfRow(CurrentRow(p)))) = 1
               /\ store' \ store = WithKey(store', KeyOfRow(CurrentRow(p)))
               /\ store \subseteq store']_vars

\* Both imports are under way over the same natural key: one of them created
\* its record, the other found it and updated it.
C11_Witness ==
    /\ pos[1] > 1 /\ pos[2] > 1
    /\ Last(results[1]).kind = "Created"
    /\ Last(results[2]).kind = "Updated"
    /\ KeyOfRow(batch[1][pos[1] - 1]) = KeyOfRow(batch[2][pos[2] - 1])
    /\ Cardinality(WithKey(store, KeyOfRow(batch[1][pos[1] - 1]))) = 1

\* What a call has read from or written to the store, and reported.
Touched == <<store, nextId, existing, nmatch, results, pos, batch>>

\* The buffer these rows were read from could not be decoded: a cell holds
\* U+FFFD where a byte was invalid.
Undecodable(file) ==
    \E i \in 1..Len(file) :
        \E cell \in {file[i].starts_at, file[i].ends_at} :
            \E k \in 1..Len(cell) : cell[k] = Replacement

\* C12: a call whose uploaded buffer cannot be decoded fails as a whole
\* before any row: while it runs the store is neither read nor written, no
\* line is produced, and the call ends in a batch error.
C12_BatchFailureBeforeRows ==
    [][(pc[1] # "idle" /\ Undecodable(batch[1]))
         => /\ Touched' = Touched
            /\ pc'[1] \in {"error", "idle"}]_vars

\* The table, key counter, time and lines that processing the rows of b one
\* after the other, in order, leads to from s: a row whose key is free is
\* inserted, a row whose key is taken overwrites that record, a row with an
\* unparseable timestamp only leaves its failed line.
RECURSIVE InOrder(_, _)
InOrder(s, b) ==
    IF b = <<>> THEN s
    ELSE LET t == InOrder(s, SubSeq(b, 1, Len(b) - 1))
             row == Last(b)
             now == t.clock + 1
             held == WithKey(t.store, KeyOfRow(row))
         IN IF ~ValidRow(row)
            THEN [t EXCEPT !.clock = now,
                           !.lines = Append(@, Line("failed", row,
                                                    "bad timestamp"))]
            ELSE IF held = {}
            THEN [store |-> t.store
                            \cup {Entity(t.nextId, EventData(row), now, now)},
                  nextId |-> t.nextId + 1,
                  clock |-> now,
                  lines |-> Append(t.lines, Line("Created", row, ""))]
            ELSE LET old == CHOOSE r \in held : TRUE
                     touched == IF Settable(old) = EventData(row)
                                THEN old.updatedAt ELSE now
                 IN [store |-> (t.store \ {old})
                               \cup {Entity(old.id, EventData(row),
                                            old.createdAt, touched)},
                     nextId |-> t.nextId,
                     clock |-> now,
                     lines |-> Append(t.lines, Line("Updated", row, ""))]

\* The import of handler 1 was stopped before its last row.
Cancelled == pc[1] = "done" /\ pos[1] <= Len(batch[1])

\* C13: between two rows, and so whenever the import is stopped after k rows,
\* the table is the one that processing exactly the first k rows in order
\* leads to from the table the import started with, and the lines produced
\* are exactly those of these k rows.
C13_CancelKeepsCommitted ==
    (pc[1] \in {"find", "done"})
    => LET k == pos[1] - 1
           after == InOrder(prev[1], SubSeq(batch[1], 1, k))
       IN /\ store = after.store
          /\ results[1] = after.lines
          /\ Len(results[1]) = k
          /\ nextId = after.nextId

\* The import was stopped after rows that wrote to the table, with rows
\* left unread.
C13_Witness ==
    /\ Cancelled
    /\ pos[1] > 1
    /\ store # prev[1].store
    /\ \E i \in pos[1]..Len(batch[1]) : KeyOfRow(batch[1][i]) \notin KeysOf(store)

\* The row handler 1 has just finished, once it was saved.
RowSaved == pos[1] > 1 /\ Last(results[1]).kind # "failed"
SavedRow == batch[1][pos[1] - 1]
\* The records of the table under the natural key of that row.
SavedAs == WithKey(store, KeyOfRow(SavedRow))

\* The stored flag is a boolean, true exactly for the cell "1".
FlagStored(cell, stored) ==
    /\ stored \in BOOLEAN
    /\ stored = TRUE <=> cell = "1"
    /\ cell \in {"0", "", Undefined} => stored = FALSE

\* C14: for each of is_featured, is_has_ends_at, is_all_day and is_active the
\* stored boolean of a saved row is true exactly when the cell is "1" and
\* false for every other cell, "0", the empty one and a missing one included;
\* it is never null.
C14_FlagCoercion ==
    RowSaved
    => /\ Cardinality(SavedAs) = 1
       /\ \A rec \in SavedAs :
             /\ FlagStored(SavedRow.is_featured, rec.isFeatured)
             /\ FlagStored(SavedRow.is_has_ends_at, rec.isHasEndsAt)
             /\ FlagStored(SavedRow.is_all_day, rec.isAllDay)
             /\ FlagStored(SavedRow.is_active, rec.isActive)

\* A row with the cells "1", "0", empty and missing was saved over the event
\* entered by hand: only the first flag is set.
C14_Witness ==
    /\ RowSaved
    /\ Last(results[1]).kind = "Updated"
    /\ SavedRow.is_featured = "1" /\ SavedRow.is_has_ends_at = "0"
    /\ SavedRow.is_all_day = "" /\ SavedRow.is_active = Undefined
    /\ \E rec \in SavedAs :
          /\ rec.isFeatured /\ ~rec.isHasEndsAt /\ ~rec.isAllDay
          /\ ~rec.isActive

\* The stored optional text is null for an empty or missing cell and the
\* cell's text, character for character, otherwise.
TextStored(cell, stored) ==
    /\ cell \in {"", Undefined} => stored = Null
    /\ cell \notin {"", Undefined} => stored = <<cell>>
    /\ stored # <<"">>

\* C15: description and haunted_by of a saved row are stored as null when the
\* cell is empty or missing, never as the empty text, and every other cell is
\* stored unmodified.
C15_OptionalText ==
    RowSaved
    => /\ Cardinality(SavedAs) = 1
       /\ \A rec \in SavedAs :
             /\ TextStored(SavedRow.description, rec.description)
             /\ TextStored(SavedRow.haunted_by, rec.hauntedBy)

\* A row with an empty description and a haunted_by padded with blanks was
\* saved: the first is null, the second kept with its blanks.
C15_Witness ==
    /\ RowSaved
    /\ SavedRow.description = "" /\ SavedRow.haunted_by = " Witch "
    /\ \E rec \in SavedAs :
          rec.description = Null /\ rec.hauntedBy = <<" Witch ">>

\* The row lacks one of name, slug and starts_at, or has it empty.
RequiredMissing(row) ==
    \/ row.name \in {"", Undefined}
    \/ row.slug \in {"", Undefined}
    \/ row.starts_at \in {T_Empty, T_Undefined}

\* C16: a row whose name, slug or starts_at is missing or empty is finished
\* as failed by the first step that takes it up: no lookup is made for it,
\* nothing is written, and so a file without a required column fails every
\* row and leaves the table as it was. (The text of the reason is left aside.)
C16_RequiredFields ==
    [][(pc[1] = "find" /\ RequiredMissing(CurrentRow(1)))
       => /\ RowDone(1)
          /\ Last(results'[1]).kind = "failed"
          /\ pc'[1] # "save"
          /\ store' = store]_vars

\* C17: when a row updates the record its lookup found, afterwards every
\* column the import sets has, in that record, the value the row maps to:
\* nothing of the previous values is left, and a null description or
\* hauntedBy replaces a text that was there.
C17_MergeIsTotal ==
    [][(RowDone(1) /\ Last(results'[1]).kind = "Updated")
       => \A e \in existing[1] :
            \E r \in store' :
               /\ r.id = e.id
               /\ Settable(r) = EventData(CurrentRow(1))
               /\ CurrentRow(1).description = "" => r.description = Null
               /\ CurrentRow(1).haunted_by = "" => r.hauntedBy = Null]_vars

\* The event entered by hand, which had a description, was updated by a row
\* with an empty description and another haunted_by: the description is null
\* now and the hauntedBy is the row's.
C17_Witness ==
    /\ pos[1] > 1
    /\ Last(results[1]).kind = "Updated"
    /\ batch[1][pos[1] - 1].description = ""
    /\ \E r \in store :
          /\ r.id = SeedEvent.id
          /\ SeedEvent.description # Null /\ r.description = Null
          /\ r.hauntedBy # SeedEvent.hauntedBy /\ r.hauntedBy # Null

\* Handler 1 finishes its row in this step with a line of this kind.
Reports(kind) == RowDone(1) /\ Last(results'[1]).kind = kind

\* A row reported Created has stored one more record, under an id no record
\* had, created and updated at the time of the step.
CreatedIsFresh ==
    Reports("Created")
    => \E r \in store' :
          /\ store' = store \cup {r}
          /\ \A o \in store : o.id # r.id
          /\ r.createdAt = clock' /\ r.updatedAt = clock'
          /\ clock' > clock

\* C18 as stated: a created row stores a record under a fresh id with
\* createdAt = updatedAt = now; an updated row sets updatedAt to now and
\* leaves id and createdAt as they were.
C18_Original ==
    [][/\ CreatedIsFresh
       /\ Reports("Updated")
          => \A e \in existing[1] :
               \E r \in store' :
                  /\ r.id = e.id
                  /\ r.createdAt = e.createdAt
                  /\ r.updatedAt = clock']_vars

\* C18, amended: a created row stores a record under a fresh id with
\* createdAt = updatedAt = now; an updated row leaves id and createdAt as they
\* were, sets updatedAt to now when it changes a column of the record and
\* leaves updatedAt as it was when it changes none. Both timestamps are the
\* time of a step, whatever the cells of the row.
C18_SystemManaged ==
    [][/\ CreatedIsFresh
       /\ Reports("Updated")
          => \A e \in existing[1] :
               \E r \in store' :
                  /\ r.id = e.id
                  /\ r.createdAt = e.createdAt
                  /\ r.updatedAt =
                        IF Settable(e) = EventData(CurrentRow(1))
                        THEN e.updatedAt ELSE clock'
                  /\ {o.id : o \in store'} = {o.id : o \in store}]_vars

\* A row was reported Updated although it changed nothing of its record: the
\* record's updatedAt is still the time it was created at, not the time of
\* this row.
C18_Witness ==
    /\ RowSaved
    /\ Last(results[1]).kind = "Updated"
    /\ \E r \in SavedAs :
          /\ Settable(r) = EventData(SavedRow)
          /\ r.updatedAt = r.createdAt
          /\ r.updatedAt < clock

\* What handler 1 has left to do at most: for every row not finished a
\* lookup, a save and one repetition.
Remaining ==
    IF Running(1)
    THEN 4 * (Len(batch[1]) - pos[1] + 1)
         + (IF pc[1] = "find" THEN 2 ELSE 0) + (1 - tries[1])
    ELSE 0

\* C19: a store operation that times out is tried again at most once per
\* row: the first timeout leaves the row, its lines and the table as they are
\* for the second attempt, a further timeout fails the row and the loop moves
\* on; no row has more than one failed attempt behind it while it is worked
\* on, and the import comes to its end, every step of it leaving less to do.
C19_BoundedRetry ==
    /\ [](tries[1] \in {0, 1} /\ Remaining >= 0)
    /\ [][(faults' = faults + 1)
          => IF tries[1] = 0
             THEN /\ tries'[1] = 1
                  /\ <<pc, pos, results, store>>' = <<pc, pos, results, store>>
             ELSE /\ RowDone(1)
                  /\ Last(results'[1]).kind = "failed"
                  /\ pc'[1] = AfterRow(1)
                  /\ store' = store
                  /\ tries'[1] = 0]_vars
    /\ [][Running(1) => Remaining' < Remaining]_vars

\* A row was failed by its second timeout, after a row that was saved; the
\* import is not at its end.
C19_Witness ==
    /\ pos[1] > 2
    /\ Len(batch[1]) >= pos[1]
    /\ faults = 2
    /\ results[1][pos[1] - 1].reason = "store failure"
    /\ results[1][pos[1] - 2].kind = "Created"

\* Every worker of a split upload is through.
AllJoined == prev # <<>> /\ \A p \in Procs : pc[p] = "done"

\* The place of row i of the file among the rows of its worker.
PlaceOf(w, i) == Cardinality({j \in 1..i : w[j] = w[i]})

\* The columns the import sets, of every record of the table.
Contents(st) == {Settable(r) : r \in st}

\* C20: when the rows of a file are split by natural key and every part is
\* processed in file order, then however the workers' steps interleave, the
\* table at the end holds the same events with the same values as after
\* processing the whole file in order (generated ids and timestamps aside),
\* no key twice, and every row has the line it has in that sequential run.
C20_PartitionedAsSequential ==
    AllJoined
    => LET file == prev[1].file
           w == prev[1].worker
           inOrder == InOrder(prev[1], file)
       IN /\ Contents(store) = Contents(inOrder.store)
          /\ Cardinality(store) = Cardinality(inOrder.store)
          /\ NoDuplicateKeys(store)
          /\ \A r \in prev[1].store :
                \E o \in store : o.id = r.id /\ o.createdAt = r.createdAt
          /\ \A i \in 1..Len(file) :
                results[w[i]][PlaceOf(w, i)] = inOrder.lines[i]
          /\ \A p \in Procs :
                Len(results[p]) = Cardinality({i \in 1..Len(file) : w[i] = p})

\* Both workers had rows, one of them two rows of one key, and the records
\* were inserted in another order than the file's: the table differs from the
\* sequential one in its generated ids.
C20_Witness ==
    /\ AllJoined
    /\ \A p \in Procs : batch[p] # <<>>
    /\ \E p \in Procs :
          /\ Len(results[p]) > 1
          /\ results[p][1].kind = "Created" /\ results[p][2].kind = "Updated"
    /\ store # InOrder(prev[1], prev[1].file).store

\* The records of the table under another natural key than the row's.
OtherKeys(st, row) ==
    LET k == KeyOfRow(row) IN {r \in st : <<r.slug, r.startsAt>> # k}

\* C24: a row reads and writes only under its own natural key: the entity its
\* lookup holds carries the row's slug and instant, and no step taken for the
\* row, whether it ends Created, Updated or failed, changes any column of a
\* record under another key, records with the same slug at another instant
\* and records at the same instant under another slug included.
C24_FrameCondition ==
    /\ [](pc[1] = "save"
          => \A e \in existing[1] :
                <<e.slug, e.startsAt>> = KeyOfRow(CurrentRow(1)))
    /\ [][Running(1)
          => OtherKeys(store', CurrentRow(1))
               = OtherKeys(store, CurrentRow(1))]_vars

\* A row has just updated its record while the table holds another instance
\* of the same slug and another event at the same instant, both as they were
\* created.
C24_Witness ==
    /\ RowSaved
    /\ Last(results[1]).kind = "Updated"
    /\ \E r \in SavedAs : r.updatedAt = clock
    /\ \E o \in store :
          /\ o.slug = SavedRow.slug
          /\ o.startsAt # parse(SavedRow.starts_at)
          /\ o.updatedAt = o.createdAt
    /\ \E o \in store :
          /\ o.slug # SavedRow.slug
          /\ o.startsAt = parse(SavedRow.starts_at)
          /\ o.updatedAt = o.createdAt

\* ------------------------------------------------------- worker properties

\* The requests whose path ends in .html, by name.
HtmlUrls == {U_AHtml, U_DotHtml, U_AHtmlQuery, U_BAHtml}

\* The upstream calls of this event went to these, in this order.
CalledInOrder == [i \in 1..Len(calls) |-> calls[i].to]

\* The static server answered the event's first call with status 200.
StaticOk ==
    /\ calls # <<>>
    /\ calls[1] = Call("fetch", Response("static", 200))

\* C21: a request whose path ends in .html is first fetched as a static file,
\* and that response is returned exactly when its status is 200; with any
\* other status, or when the fetch throws, the response is Nitro's. Any other
\* request goes to Nitro without a static fetch. Every request gets exactly
\* one response: respondWith is called once per event, and what it is given
\* settles to one outcome.
C21_StaticFirst ==
    /\ wpc # "idle" => responded = 1
    /\ wpc # "done" => answer = <<>>
    /\ (wpc \notin {"idle", "static"} /\ request \in HtmlUrls)
          => calls[1].to = "fetch"
    /\ (wpc = "done" /\ request \in HtmlUrls /\ StaticOk)
          => /\ answer = <<calls[1].got>>
             /\ CalledInOrder = <<"fetch">>
    /\ (wpc = "done" /\ request \in HtmlUrls /\ ~StaticOk)
          => /\ answer = <<Last(calls).got>>
             /\ answer[1].from = "nitro"
             /\ CalledInOrder \in {<<"fetch", "nitro">>,
                                   <<"fetch", "nitro", "nitro">>}
    /\ (wpc = "done" /\ request \notin HtmlUrls)
          => /\ answer = <<calls[1].got>>
             /\ CalledInOrder = <<"nitro">>
    /\ (wpc \in {"static", "fallback", "catch"}) => request \in HtmlUrls
    /\ wpc = "ssr" => request \notin HtmlUrls

\* A second event, for a prerendered page with a query: the static server
\* answered 404 and the page came from Nitro.
C21_Witness ==
    /\ wpc = "done"
    /\ served = 1
    /\ request = U_AHtmlQuery
    /\ calls[1] = Call("fetch", Response("static", 404))
    /\ answer = <<Response("nitro", 200)>>
    /\ responded = 1

\* The event was forwarded to Nitro: a call to it is pending or has settled.
Forwarded ==
    \/ wpc \in {"ssr", "fallback", "catch"}
    \/ \E i \in 1..Len(calls) : calls[i].to = "nitro"

\* C25: in the KV variant a request whose path ends in .html is answered with
\* the asset from the KV store, or with the 404 "Not found" response when the
\* lookup throws, and is never forwarded to Nitro; only requests whose path
\* does not end in .html are forwarded.
C25_AssetsOnly ==
    /\ (wpc # "idle" /\ request \in HtmlUrls)
          => /\ ~Forwarded
             /\ responded = 1
             /\ wpc \in {"asset", "done"}
    /\ (wpc = "done" /\ request \in HtmlUrls)
          => /\ CalledInOrder = <<"kv">>
             /\ calls[1].got \in AssetOutcomes
             /\ calls[1].got.kind = "response" => answer = <<calls[1].got>>
             /\ calls[1].got.kind = "thrown" => answer = <<NotFound>>
    /\ Forwarded => request \in Urls \ HtmlUrls
    /\ wpc = "asset" => request \in HtmlUrls

\* The lookup of a prerendered page in a directory threw and the worker
\* answered 404, after an earlier event.
C25_Witness ==
    /\ wpc = "done"
    /\ served = 1
    /\ request = U_BAHtml
    /\ calls = <<Call("kv", Thrown("kv"))>>
    /\ answer = <<NotFound>>

\* ------------------------------------------------- contact form properties

IsMail(a) == a.to = "mail"

\* The mails the handler has handed to the mail service, in order.
Mails == SelectSeq(asked, IsMail)

\* The k-th outside call was made and resolved to one of these values.
ResolvedTo(k, values) ==
    /\ Len(asked) >= k
    /\ asked[k].got.kind = "resolved"
    /\ asked[k].got.value \in values

\* C22: the mail service is called only after the body passed validation,
\* then Turnstile verified the token, then the template was found. A
\* validation error is answered with status 403 and the error details without
\* a call to Turnstile; a token that is not verified with status 400 and
\* "Invalid token"; a missing template with status 500; and in these three
\* cases no mail is handed to the mail service.
C22_GatingOrder ==
    /\ Mails # <<>>
          => /\ error = <<>>
             /\ asked[1].to = "siteverify" /\ ResolvedTo(1, {"true"})
             /\ asked[2].to = "getItem" /\ ResolvedTo(2, {"string"})
             /\ \A i \in 3..Len(asked) : asked[i].to = "mail"
    /\ (cpc # "idle" /\ error # <<>>)
          => /\ cpc = "done"
             /\ status = 403
             /\ reply = <<Reply("details", error)>>
             /\ asked = <<>>
    /\ ResolvedTo(1, {"false", Undefined})
          => /\ cpc = "done"
             /\ status = 400
             /\ reply = <<Reply("error", <<"Invalid token">>)>>
             /\ Len(asked) = 1
    /\ ResolvedTo(2, {"null", "object"})
          => /\ cpc = "done"
             /\ status = 500
             /\ reply[1].kind = "error"
             /\ Len(asked) = 2
    /\ cpc \in {"owner", "submitter"} => Mails # <<>>
    /\ (cpc = "body" \/ body = <<>>) => asked = <<>>

\* The second request: the siteverify answer had no `success` and the
\* handler answered 400, the token having come as cf-turnstile-response.
C22_Witness ==
    /\ cpc = "done"
    /\ handled = 1
    /\ status = 400
    /\ body.token = ""
    /\ asked = <<[to |-> "siteverify", arg |-> "tok-2",
                  got |-> Resolved(Undefined)]>>

\* C23: the confirmation to the submitter is attempted only after the
\* notification to the owner was sent; the success message is returned only
\* when both were sent; when the first send fails the second is never
\* attempted; and when either fails the handler returns the caught error
\* instead of the success message.
C23_EmailOrdering ==
    /\ Len(Mails) <= 2
    /\ Mails # <<>> => Mails[1].arg = Owner
    /\ Len(Mails) = 2
          => /\ Mails[1].got.kind = "resolved"
             /\ Mails[2].arg = body.email
    /\ (reply # <<>> /\ reply[1].kind = "success")
          => /\ Len(Mails) = 2
             /\ \A i \in 1..2 : Mails[i].got.kind = "resolved"
    /\ (Mails # <<>> /\ Mails[1].got.kind = "rejected")
          => /\ Len(Mails) = 1
             /\ cpc = "done"
    /\ (\E i \in 1..Len(Mails) : Mails[i].got.kind = "rejected")
          => /\ reply = <<Reply("caught", <<"mail", Last(Mails).arg>>)>>
             /\ reply[1].text # SuccessMessage

\* The owner's mail was sent, the confirmation to bob@example.com was
\* rejected, and the handler returned the caught error.
C23_Witness ==
    /\ cpc = "done"
    /\ Len(Mails) = 2
    /\ Mails[1].got.kind = "resolved"
    /\ Mails[2] = [to |-> "mail", arg |-> "bob@example.com", got |-> Rejected]
    /\ reply[1].kind = "caught"
    /\ status = 200

====
